---- MODULE Spec2Model ----
(***************************************************************************)
(* Model of dagd's MQTT interface (src/mqtt.c): the notification registry  *)
(* (notify, mqtt_subscribe), the inbound message handler (message,         *)
(* process_epoch) with the session state it maintains, the rate limited    *)
(* status publisher (mqtt_status), and the transport handlers (connected,  *)
(* disconnected, mqtt_poll).                                               *)
(*                                                                         *)
(* A payload is a sequence of bytes, each written as a one-character       *)
(* string; the zero byte is written NUL.  Machine integers are sequences   *)
(* of 16-bit limbs, least significant first, so that the widths of         *)
(* unsigned long, unsigned and uint16_t are the ones the code has.         *)
(***************************************************************************)
EXTENDS Integers, Sequences, FiniteSets, TLC

VARIABLES
    shutdown_pending,   \* bool shutdown_pending
    hold,               \* bool hold
    curr_algo,          \* int curr_algo
    curr_epoch,         \* uint16_t curr_epoch
    curr_block,         \* uint64_t curr_block
    sub,                \* struct subscription *sub; subs is Len(sub)
    last,               \* static time_t last of mqtt_status
    now,                \* the wall clock time() reads, in whole seconds
    ulong_limbs,        \* width of the build's unsigned long, in 16-bit limbs
    log,                \* history: one record per message() call
    pubs,               \* history: one record per mqtt_status() call
    running,            \* the process has not called exit()
    net,                \* history: one record per transport callback or poll
    disp                \* the notify() loop a re-entrant callback runs in

vars == <<shutdown_pending, hold, curr_algo, curr_epoch, curr_block, sub,
          last, now, ulong_limbs, log, pubs, running, net, disp>>

-----------------------------------------------------------------------------
(* Bounds of the exploration.                                              *)

MaxMsgs == 2        \* message() calls in one run of the decoder
MaxSubs == 3        \* mqtt_subscribe() calls in one run
MaxDispatch == 1    \* message() calls in one run of the registry
MaxPubs == 3        \* mqtt_status() calls in one run
MaxTime == 3        \* last second the wall clock reaches
MaxEvents == 2      \* transport callbacks and polls in one run
MaxSteps == 3       \* operations in one run of the whole program

-----------------------------------------------------------------------------
(* Machine integers.                                                       *)

UINT16_RANGE == 65536   \* number of values of a uint16_t (one limb)
UINT_LIMBS == 2         \* unsigned is 32 bits wide

NUL == "NUL"

Zero(nl) == [i \in 1..nl |-> 0]

AllOnes(nl) == [i \in 1..nl |-> UINT16_RANGE - 1]

\* x * b + c over the limbs i.. of x; the last element of the result is the
\* carry out of the most significant limb.
RECURSIVE MulAddFrom(_, _, _, _)
MulAddFrom(x, i, b, c) ==
    IF i > Len(x)
    THEN <<c>>
    ELSE LET t == x[i] * b + c
         IN  <<t % UINT16_RANGE>> \o MulAddFrom(x, i + 1, b, t \div UINT16_RANGE)

\* two's complement negation in the width of x
Negate(x) ==
    LET inv == [i \in 1..Len(x) |-> UINT16_RANGE - 1 - x[i]]
    IN  SubSeq(MulAddFrom(inv, 1, 1, 1), 1, Len(x))

\* conversion of an unsigned long to unsigned: the low 32 bits
ToUnsigned(v) == SubSeq(v, 1, UINT_LIMBS)

\* conversion of an unsigned to uint16_t: the low 16 bits
ToUint16(n) == n[1]

\* conversion of an unsigned to bool
ToBool(n) == n # Zero(UINT_LIMBS)

\* n == curr_epoch, the uint16_t promoted to unsigned
EqUnsignedUint16(n, e) == n[1] = e /\ \A i \in 2..Len(n) : n[i] = 0

-----------------------------------------------------------------------------
(* C strings.                                                              *)

\* the C string a buffer holds: the bytes before the first zero byte
RECURSIVE CStr(_)
CStr(p) ==
    IF p = <<>> \/ Head(p) = NUL THEN <<>> ELSE <<Head(p)>> \o CStr(Tail(p))

\* s[i] of a C string, 1-based; the terminator is at Len(s) + 1
At(s, i) == IF i <= Len(s) THEN s[i] ELSE NUL

\* the C string that starts at s + (i - 1)
From(s, i) == SubSeq(s, i, Len(s))

IsSpace(c) == c \in {" ", "\t", "\n", "\r", "\f"}

DigitChars == <<"0", "1", "2", "3", "4", "5", "6", "7", "8", "9",
                "a", "b", "c", "d", "e", "f">>

UpperChars == <<"0", "1", "2", "3", "4", "5", "6", "7", "8", "9",
                "A", "B", "C", "D", "E", "F">>

\* value of c as a digit of the given base, or -1 when it is none
DigitVal(c, base) ==
    LET ks == {k \in 1..base : DigitChars[k] = c \/ UpperChars[k] = c}
    IN  IF ks = {} THEN -1 ELSE (CHOOSE k \in ks : TRUE) - 1

RECURSIVE SkipSpace(_, _)
SkipSpace(s, i) == IF IsSpace(At(s, i)) THEN SkipSpace(s, i + 1) ELSE i

\* the digit loop of strtoul: accumulates in the width of unsigned long and
\* remembers whether the value left that width
RECURSIVE ParseDigits(_, _, _, _, _, _)
ParseDigits(s, i, base, acc, ovf, cnt) ==
    LET d == DigitVal(At(s, i), base)
    IN  IF d < 0
        THEN [acc |-> acc, ovf |-> ovf, end |-> i, cnt |-> cnt]
        ELSE LET r == MulAddFrom(acc, 1, base, d)
             IN  ParseDigits(s, i + 1, base, SubSeq(r, 1, Len(acc)),
                             ovf \/ r[Len(r)] # 0, cnt + 1)

\* strtoul with base 0 takes 16 from a 0x prefix that a hex digit follows,
\* 8 from a leading 0, and 10 otherwise
HasHexPrefix(s, i) ==
    /\ At(s, i) = "0"
    /\ At(s, i + 1) \in {"x", "X"}
    /\ DigitVal(At(s, i + 2), 16) >= 0

BaseAt(s, i) ==
    IF HasHexPrefix(s, i) THEN 16 ELSE IF At(s, i) = "0" THEN 8 ELSE 10

\* where the digits start, past a 0x prefix
DigitsAt(s, i) == IF HasHexPrefix(s, i) THEN i + 2 ELSE i

\* past an optional sign
SignEnd(s, i) == IF At(s, i) \in {"-", "+"} THEN i + 1 ELSE i

\* what strtoul returns for the digits r it read.  No digits: 0 and
\* end = s.  Out of range: ULONG_MAX.  A minus sign negates.
Converted(r, neg, nl) ==
    IF r.cnt = 0 THEN [val |-> Zero(nl), end |-> 1]
    ELSE IF r.ovf THEN [val |-> AllOnes(nl), end |-> r.end]
    ELSE IF neg THEN [val |-> Negate(r.acc), end |-> r.end]
    ELSE [val |-> r.acc, end |-> r.end]

\* strtoul(s, &end, 0) with an unsigned long of nl limbs: white space, an
\* optional sign, the base from the prefix, the digits
strtoul(s, nl) ==
    Converted(ParseDigits(s, DigitsAt(s, SignEnd(s, SkipSpace(s, 1))),
                          BaseAt(s, SignEnd(s, SkipSpace(s, 1))),
                          Zero(nl), FALSE, 0),
              At(s, SkipSpace(s, 1)) = "-", nl)

\* strchr(s, c): the index of the first c in s, or 0 for NULL
strchr(s, c) ==
    LET is == {i \in 1..Len(s) : s[i] = c}
    IN  IF is = {} THEN 0 ELSE CHOOSE i \in is : \A j \in is : i <= j

\* strncmp(a, b, n): 0 when the first n bytes agree (or both strings end
\* before), 1 otherwise; the sign of a difference is never used
RECURSIVE strncmpFrom(_, _, _, _)
strncmpFrom(a, b, i, n) ==
    IF i > n THEN 0
    ELSE IF At(a, i) # At(b, i) THEN 1
    ELSE IF At(a, i) = NUL THEN 0
    ELSE strncmpFrom(a, b, i + 1, n)

strncmp(a, b, n) == strncmpFrom(a, b, 1, n)

-----------------------------------------------------------------------------
(* Names the program fixes.                                                *)

MQTT_TOPIC_EPOCH == "/mine/epoch"
MQTT_TOPIC_CACHE == "/mine/dag-cache"
MQTT_TOPIC_SHUTDOWN == "/sys/shutdown"
MQTT_TOPIC_MINED_STATE == "/mine/mined-state"

HOLD_STATE == <<"e", "p", "o", "c", "h", "_", "u", "p", "l", "o", "a", "d", " ">>

mqtt_notify_epoch == "mqtt_notify_epoch"
mqtt_notify_mined_state == "mqtt_notify_mined_state"
mqtt_notify_shutdown == "mqtt_notify_shutdown"

NotifyTypes == {mqtt_notify_epoch, mqtt_notify_mined_state, mqtt_notify_shutdown}

\* results of the transport's calls (enum mosq_err_t of mosquitto.h): its one
\* negative value, success, and MOSQ_ERR_NO_CONN for a failure
MOSQ_ERR_CONN_PENDING == -1
MOSQ_ERR_SUCCESS == 0
MOSQ_ERR_FAILURE == 4

\* results the broker gives a connection request (CONNACK return codes)
CONNACK_ACCEPTED == 0
CONNACK_REFUSED == 5

\* The algorithm lookup of linzhi/dagalgo.h: the code of a known name, a
\* negative number for any other string.
ETHASH == <<"e", "t", "h", "a", "s", "h">>
ETCHASH == <<"e", "t", "c", "h", "a", "s", "h">>
UBQHASH == <<"u", "b", "q", "h", "a", "s", "h">>

AlgoNames == <<ETHASH, ETCHASH, UBQHASH>>

da_ethash == 0

dagalgo_code(name) ==
    LET ks == {k \in 1..Len(AlgoNames) : AlgoNames[k] = name}
    IN  IF ks = {} THEN -1 ELSE (CHOOSE k \in ks : TRUE) - 1

-----------------------------------------------------------------------------
(* Notifications.                                                          *)

\* notifyFrom gone wrong: the loop ends at the first match
RECURSIVE notifyFirst(_, _, _)
notifyFirst(reg, i, type) ==
    IF i > Len(reg)
    THEN <<>>
    ELSE IF reg[i].type = type
    THEN <<[fn |-> reg[i].fn, user |-> reg[i].user]>>
    ELSE notifyFirst(reg, i + 1, type)

\* the loop of notify over sub[i..]: the callbacks it calls, in order, each
\* as the pair (fn, user) of the entry
RECURSIVE notifyFrom(_, _, _)
notifyFrom(reg, i, type) ==
    IF i > Len(reg)
    THEN <<>>
    ELSE (IF reg[i].type = type
          THEN <<[fn |-> reg[i].fn, user |-> reg[i].user]>>
          ELSE <<>>) \o notifyFrom(reg, i + 1, type)

notify(reg, type) == notifyFrom(reg, 1, type)

\* sub after mqtt_subscribe(type, fn, user)
subscribe(reg, type, fn, user) ==
    Append(reg, [type |-> type, fn |-> fn, user |-> user])

-----------------------------------------------------------------------------
(* Reception.  The session state is handled as one record st; a handler    *)
(* yields the state it leaves, the notify() calls it made (each with the   *)
(* state the callbacks saw) and the diagnostic it printed.                 *)

SessionState ==
    [shutdown_pending |-> shutdown_pending, hold |-> hold,
     curr_algo |-> curr_algo, curr_epoch |-> curr_epoch,
     curr_block |-> curr_block]

Dropped(st, diag) == [st |-> st, notified |-> <<>>, diag |-> diag]

Notified(st, type, diag) ==
    [st |-> st, notified |-> <<[type |-> type, seen |-> st]>>, diag |-> diag]

\* epoch_update gone wrong: only the epoch number is compared
epoch_update_by_epoch(st, n, algo) ==
    IF EqUnsignedUint16(n, st.curr_epoch)
    THEN Dropped(st, "")
    ELSE Notified([st EXCEPT !.curr_algo = algo, !.curr_epoch = ToUint16(n)],
                  mqtt_notify_epoch, "")

\* lines 131-135 of process_epoch: the change test and the update
epoch_update(st, n, algo) ==
    IF algo = st.curr_algo /\ EqUnsignedUint16(n, st.curr_epoch)
    THEN Dropped(st, "")
    ELSE Notified([st EXCEPT !.curr_algo = algo, !.curr_epoch = ToUint16(n)],
                  mqtt_notify_epoch, "")

\* AlgoArg gone wrong: the lookup is given names itself
AlgoArg_names(buf, names) == From(buf, names)

\* next + 1 of process_epoch: the string past the first space of names
AlgoArg(buf, names) == From(buf, names + strchr(From(buf, names), " "))

\* process_epoch gone wrong: an unknown algorithm name falls back to ethash
process_epoch_fallback(st, n, buf, names) ==
    IF names # 0 /\ strchr(From(buf, names), " ") = 0
    THEN Dropped(st, "algorithm name missing in epoch")
    ELSE IF names # 0 /\ dagalgo_code(AlgoArg(buf, names)) >= 0
    THEN epoch_update(st, n, dagalgo_code(AlgoArg(buf, names)))
    ELSE epoch_update(st, n, da_ethash)

\* process_epoch(n, names); names is an index into buf, 0 for NULL
process_epoch(st, n, buf, names) ==
    IF names # 0
    THEN IF strchr(From(buf, names), " ") = 0
         THEN Dropped(st, "algorithm name missing in epoch")
         ELSE IF dagalgo_code(AlgoArg(buf, names)) < 0
         THEN Dropped(st, "unknown algorithm")
         ELSE epoch_update(st, n, dagalgo_code(AlgoArg(buf, names)))
    ELSE epoch_update(st, n, da_ethash)

\* the type message() derives from the topic, "" for an unrecognized topic
TopicType(topic) ==
    IF topic = MQTT_TOPIC_EPOCH THEN mqtt_notify_epoch
    ELSE IF topic = MQTT_TOPIC_MINED_STATE THEN mqtt_notify_mined_state
    ELSE IF topic = MQTT_TOPIC_SHUTDOWN THEN mqtt_notify_shutdown
    ELSE ""

\* NextHold gone wrong: the prefix is compared without its last byte
NextHold_short(buf) == strncmp(HOLD_STATE, buf, Len(HOLD_STATE) - 1) = 0

\* next_hold of message()
NextHold(buf) == strncmp(HOLD_STATE, buf, Len(HOLD_STATE)) = 0

\* the mined-state branch of message()
mined_state(st, buf) ==
    Notified([st EXCEPT !.hold = NextHold(buf)], mqtt_notify_mined_state,
             IF st.hold # NextHold(buf)
             THEN (IF NextHold(buf) THEN "begin holding" ELSE "end holding")
             ELSE "")

\* shutdown gone wrong: the number is stored in the hold flag
shutdown_in_hold(st, n) ==
    Notified([st EXCEPT !.hold = ToBool(n)], mqtt_notify_shutdown, "")

\* the shutdown case of message()
shutdown(st, n) ==
    Notified([st EXCEPT !.shutdown_pending = ToBool(n)],
             mqtt_notify_shutdown, "")

\* message() from strtoul on: r is what strtoul(buf, &end, 0) gave
numeric(st, type, buf, r) ==
    IF At(buf, r.end) # NUL /\ At(buf, r.end) # " "
    THEN Dropped(st, "bad number")
    ELSE IF type = mqtt_notify_epoch
    THEN process_epoch(st, ToUnsigned(r.val), buf,
                       IF At(buf, r.end) # NUL THEN r.end + 1 ELSE 0)
    ELSE shutdown(st, ToUnsigned(r.val))

\* message(): what one call does to the session state; nl is the width of
\* the build's unsigned long
handle(st, topic, payload, nl) ==
    IF TopicType(topic) = ""
    THEN Dropped(st, "unrecognized topic")
    ELSE IF TopicType(topic) = mqtt_notify_mined_state
    THEN mined_state(st, CStr(payload))
    ELSE numeric(st, TopicType(topic), CStr(payload),
                 strtoul(CStr(payload), nl))

\* the callbacks one notify() call runs, each with the state it saw
CallsFor(cs, note) ==
    [i \in 1..Len(cs) |->
        [fn |-> cs[i].fn, user |-> cs[i].user, type |-> note.type,
         seen |-> note.seen]]

\* the callbacks one message() call runs, in order
RECURSIVE CallsOf(_, _)
CallsOf(reg, notified) ==
    IF notified = <<>>
    THEN <<>>
    ELSE CallsFor(notify(reg, Head(notified).type), Head(notified))
         \o CallsOf(reg, Tail(notified))

-----------------------------------------------------------------------------
(* Operations.                                                             *)

\* the effect of a message() call whose handling gave r
Received(topic, payload, r) ==
    /\ shutdown_pending' = r.st.shutdown_pending
    /\ hold' = r.st.hold
    /\ curr_algo' = r.st.curr_algo
    /\ curr_epoch' = r.st.curr_epoch
    /\ curr_block' = r.st.curr_block
    /\ log' = Append(log, [topic |-> topic, payload |-> payload,
                           pre |-> SessionState, post |-> r.st,
                           reg |-> sub, notified |-> r.notified,
                           calls |-> CallsOf(sub, r.notified),
                           diag |-> r.diag])
    /\ UNCHANGED <<sub, last, now, ulong_limbs, pubs, running, net, disp>>

message(topic, payload) ==
    Received(topic, payload,
             handle(SessionState, topic, payload, ulong_limbs))

mqtt_subscribe(type, fn, user) ==
    /\ sub' = subscribe(sub, type, fn, user)
    /\ UNCHANGED <<shutdown_pending, hold, curr_algo, curr_epoch, curr_block,
                   last, now, ulong_limbs, log, pubs, running, net, disp>>

\* passes gone wrong: no rate limit
passes_always(t, lst, flush) == TRUE

\* passes gone wrong: flush is ignored
passes_unforced(t, lst, flush) == t # lst

\* whether mqtt_status goes on to mosquitto_publish: t is what time() read
passes(t, lst, flush) == ~(t = lst /\ ~flush)

\* after_publish gone wrong: a failed publish ends the process
after_publish_fatal(res) ==
    [sent |-> 1, logged |-> res # MOSQ_ERR_SUCCESS,
     exits |-> res # MOSQ_ERR_SUCCESS]

\* lines 101-105 of mqtt_status: one mosquitto_publish call, and a line on
\* stderr if it did not succeed
after_publish(res) ==
    [sent |-> 1, logged |-> res # MOSQ_ERR_SUCCESS, exits |-> FALSE]

\* mqtt_status(mqtt, s, flush); res is what mosquitto_publish returns
mqtt_status(flush, res) ==
    IF passes(now, last, flush)
    THEN /\ last' = now
         /\ pubs' = Append(pubs, [t |-> now, flush |-> flush,
                                  published |-> TRUE, res |-> res,
                                  last |-> last,
                                  sent |-> after_publish(res).sent,
                                  logged |-> after_publish(res).logged])
         /\ running' = ~after_publish(res).exits
         /\ UNCHANGED <<shutdown_pending, hold, curr_algo, curr_epoch,
                        curr_block, sub, now, ulong_limbs, log, net, disp>>
    ELSE /\ res = MOSQ_ERR_SUCCESS
         /\ pubs' = Append(pubs, [t |-> now, flush |-> flush,
                                  published |-> FALSE,
                                  res |-> MOSQ_ERR_SUCCESS,
                                  last |-> last, sent |-> 0,
                                  logged |-> FALSE])
         /\ UNCHANGED <<shutdown_pending, hold, curr_algo, curr_epoch,
                        curr_block, sub, last, now, ulong_limbs, log, running,
                        net, disp>>

\* the record of one transport callback or poll: what the transport
\* reported, how many transport calls the handler made, how many messages
\* had been handled, and whether the handler called exit
NetEvent(op, result, res, r) ==
    [op |-> op, result |-> result, res |-> res, calls |-> r.calls,
     msgs |-> Len(log), exits |-> r.exits]

Happened(e) ==
    /\ net' = Append(net, e)
    /\ running' = ~e.exits
    /\ UNCHANGED <<shutdown_pending, hold, curr_algo, curr_epoch, curr_block,
                   sub, last, now, ulong_limbs, log, pubs, disp>>

\* the mosquitto_subscribe calls of connected() from the k-th on; rs are
\* the results the transport gives
RECURSIVE subscribe_topics(_, _)
subscribe_topics(rs, k) ==
    IF k > Len(rs)
    THEN [calls |-> k - 1, exits |-> FALSE]
    ELSE IF rs[k] < 0
    THEN [calls |-> k, exits |-> TRUE]
    ELSE subscribe_topics(rs, k + 1)

\* what connected(mosq, data, result) does
connected_outcome(result, rs) ==
    IF result # CONNACK_ACCEPTED
    THEN [calls |-> 0, exits |-> TRUE]
    ELSE subscribe_topics(rs, 1)

connected(result, rs) ==
    Happened(NetEvent("connected", result, rs, connected_outcome(result, rs)))

\* what disconnected(mosq, data, result) does; res is what
\* mosquitto_reconnect returns
disconnected_outcome(res) == [calls |-> 1, exits |-> FALSE]

disconnected(result, res) ==
    Happened(NetEvent("disconnected", result, <<res>>,
                      disconnected_outcome(res)))

\* what mqtt_poll(mqtt, do_wait) does; res is what mosquitto_loop returns
mqtt_poll_outcome(res) == [calls |-> 1, exits |-> res < 0]

mqtt_poll(res) ==
    Happened(NetEvent("mqtt_poll", MOSQ_ERR_SUCCESS, <<res>>,
                      mqtt_poll_outcome(res)))

\* the wall clock moves to the next second
Tick ==
    /\ now < MaxTime
    /\ now' = now + 1
    /\ UNCHANGED <<shutdown_pending, hold, curr_algo, curr_epoch, curr_block,
                   sub, last, ulong_limbs, log, pubs, running, net, disp>>

\* no notify() loop is in progress
Idle == [active |-> FALSE, type |-> "", s |-> 0, stale |-> FALSE,
         freed |-> <<>>, invalid |-> FALSE, calls |-> <<>>, rec |-> <<>>]

\* notify(type) starts, for the message whose log record will be rec: s = sub
Started(type, rec) ==
    [active |-> TRUE, type |-> type, s |-> 1, stale |-> FALSE,
     freed |-> <<>>, invalid |-> FALSE, calls |-> <<>>, rec |-> rec]

\* message() as far as its call of notify(): the session state is updated,
\* and the loop of notify() is entered if the message is dispatched
Entered(topic, payload, r) ==
    IF r.notified = <<>>
    THEN Received(topic, payload, r)
    ELSE /\ shutdown_pending' = r.st.shutdown_pending
         /\ hold' = r.st.hold
         /\ curr_algo' = r.st.curr_algo
         /\ curr_epoch' = r.st.curr_epoch
         /\ curr_block' = r.st.curr_block
         /\ disp' = Started(r.notified[1].type,
                            [topic |-> topic, payload |-> payload,
                             pre |-> SessionState, post |-> r.st,
                             reg |-> sub, notified |-> r.notified,
                             calls |-> <<>>, diag |-> r.diag])
         /\ UNCHANGED <<sub, last, now, ulong_limbs, log, pubs, running, net>>

\* s++ after the entry e that s points to; called tells whether e->fn ran
Advanced(e, called) ==
    [disp EXCEPT !.s = disp.s + 1,
                 !.calls = IF called
                           THEN Append(disp.calls,
                                       [fn |-> e.fn, user |-> e.user])
                           ELSE disp.calls]

\* the callback that runs has called mqtt_subscribe: realloc has moved the
\* array (s is left pointing into the freed block) or grown it in place
Resubscribed(d, moved) ==
    IF moved /\ ~d.stale
    THEN [d EXCEPT !.stale = TRUE, !.freed = sub]
    ELSE d

\* one iteration of the loop of notify() with s pointing into the array:
\* the entry is of another type
notify_skip ==
    /\ disp.active /\ ~disp.stale
    /\ disp.s <= Len(sub)
    /\ sub[disp.s].type # disp.type
    /\ disp' = Advanced(sub[disp.s], FALSE)
    /\ UNCHANGED <<shutdown_pending, hold, curr_algo, curr_epoch, curr_block,
                   sub, last, now, ulong_limbs, log, pubs, running, net>>

\* the entry is of the type dispatched and its callback registers nothing
notify_call ==
    /\ disp.active /\ ~disp.stale
    /\ disp.s <= Len(sub)
    /\ sub[disp.s].type = disp.type
    /\ disp' = Advanced(sub[disp.s], TRUE)
    /\ UNCHANGED <<shutdown_pending, hold, curr_algo, curr_epoch, curr_block,
                   sub, last, now, ulong_limbs, log, pubs, running, net>>

\* the entry is of the type dispatched and its callback calls
\* mqtt_subscribe(type, fn, user)
notify_call_subscribing(type, fn, user, moved) ==
    /\ disp.active /\ ~disp.stale
    /\ disp.s <= Len(sub)
    /\ sub[disp.s].type = disp.type
    /\ sub' = subscribe(sub, type, fn, user)
    /\ disp' = Resubscribed(Advanced(sub[disp.s], TRUE), moved)
    /\ UNCHANGED <<shutdown_pending, hold, curr_algo, curr_epoch, curr_block,
                   last, now, ulong_limbs, log, pubs, running, net>>

\* s has reached sub + subs: notify() and message() return
notify_return ==
    /\ disp.active /\ ~disp.stale
    /\ disp.s > Len(sub)
    /\ log' = Append(log, [disp.rec EXCEPT
                               !.calls = CallsFor(disp.calls,
                                                  disp.rec.notified[1])])
    /\ disp' = Idle
    /\ UNCHANGED <<shutdown_pending, hold, curr_algo, curr_epoch, curr_block,
                   sub, last, now, ulong_limbs, pubs, running, net>>

\* one iteration with s pointing into the block realloc has freed: the
\* test against sub + subs and the read of s->type have no defined result.
\* The read finds what the block held ("intact"), the process crashes
\* ("crash"), or s, gone past the block, meets sub + subs ("end")
notify_stale(outcome) ==
    /\ disp.active /\ disp.stale
    /\ \/ /\ outcome = "intact"
          /\ disp.s <= Len(disp.freed)
          /\ disp' = [Advanced(disp.freed[disp.s],
                               disp.freed[disp.s].type = disp.type)
                         EXCEPT !.invalid = TRUE]
          /\ UNCHANGED <<running, log>>
       \/ /\ outcome = "crash"
          /\ disp' = [disp EXCEPT !.invalid = TRUE]
          /\ running' = FALSE
          /\ UNCHANGED log
       \/ /\ outcome = "end"
          /\ disp.s > Len(disp.freed)
          /\ log' = Append(log, [disp.rec EXCEPT
                                     !.calls = CallsFor(disp.calls,
                                                        disp.rec.notified[1])])
          /\ disp' = [Idle EXCEPT !.invalid = TRUE]
          /\ UNCHANGED running
    /\ UNCHANGED <<shutdown_pending, hold, curr_algo, curr_epoch, curr_block,
                   sub, last, now, ulong_limbs, pubs, net>>

-----------------------------------------------------------------------------
(* Inputs.                                                                 *)

\* unsigned long is 32 bits (2 limbs) or 64 bits (4 limbs) wide
ULongLimbs == {2, 4}

Msg(topic, payload) == [topic |-> topic, payload |-> payload]

EpochPayloads ==
    { <<"5">>,
      <<"6", "5", "5", "3", "6">>,
      <<"5", " ">> \o ETCHASH,
      <<"5", " ", "x", " ">> \o ETCHASH,
      <<"6", " ", "x", " ">> \o ETHASH,
      <<"6", "5", "5", "4", "1", " ", "x", " ">> \o ETCHASH,
      <<"5", " ", "x", " ", "b", "o", "g", "u", "s">>,
      <<"7", " ", "b", "o", "g", "u", "s">>,
      <<"1", "2", "x">>,
      <<"0", "1", "0">>,
      <<"0", "x", "1", "0">>,
      <<>>,
      <<" ">>,
      <<"x">>,
      <<"1", "2", NUL, "x">>,
      <<"4", "2", "9", "4", "9", "6", "7", "2", "9", "6">>,
      <<"-", "1">> }

ShutdownPayloads ==
    { <<"0">>,
      <<"1">>,
      <<"1", "2", "x">>,
      <<" ">>,
      <<"4", "2", "9", "4", "9", "6", "7", "2", "9", "6">>,
      <<"2", " ", "x">>,
      <<"1", "2", NUL, "x">>,
      <<>>,
      <<"x">>,
      <<"6", "5", "5", "3", "6">> }

MinedStatePayloads ==
    { HOLD_STATE \o <<"5">>,
      <<"o", "t", "h", "e", "r">>,
      SubSeq(HOLD_STATE, 1, Len(HOLD_STATE) - 1),
      <<>> }

EpochMessages == {Msg(MQTT_TOPIC_EPOCH, p) : p \in EpochPayloads}

MinedStateMessages == {Msg(MQTT_TOPIC_MINED_STATE, p) : p \in MinedStatePayloads}

ShutdownMessages == {Msg(MQTT_TOPIC_SHUTDOWN, p) : p \in ShutdownPayloads}

OtherMessages == {Msg(MQTT_TOPIC_CACHE, <<"1">>)}

\* the few messages the registry and the whole program are run with
CoreMessages ==
    { Msg(MQTT_TOPIC_EPOCH, <<"5">>),
      Msg(MQTT_TOPIC_MINED_STATE, <<"o", "t", "h", "e", "r">>),
      Msg(MQTT_TOPIC_SHUTDOWN, <<"1">>),
      Msg(MQTT_TOPIC_SHUTDOWN, <<"1", "2", "x">>) }

Reg(type, fn, user) == [type |-> type, fn |-> fn, user |-> user]

\* the registrations mqtt_subscribe is called with
Registrations ==
    { Reg(mqtt_notify_epoch, "f1", "u1"),
      Reg(mqtt_notify_epoch, "f2", "u2"),
      Reg(mqtt_notify_mined_state, "f3", "u1"),
      Reg(mqtt_notify_shutdown, "f1", "u2") }

\* the listeners of an application that registered one per event type
\* before it polls
AppSubs ==
    << Reg(mqtt_notify_epoch, "f1", "u1"),
       Reg(mqtt_notify_mined_state, "f2", "u2"),
       Reg(mqtt_notify_shutdown, "f3", "u3") >>

-----------------------------------------------------------------------------
(* Specifications.                                                         *)

\* the state the initializers of mqtt.c leave (lines 46-50, 63-64, 93)
Init ==
    /\ shutdown_pending = FALSE
    /\ hold = FALSE
    /\ curr_algo = -1
    /\ curr_epoch = 0
    /\ curr_block = 0
    /\ sub = <<>>
    /\ last = 0
    /\ now = 1
    /\ ulong_limbs \in ULongLimbs
    /\ log = <<>>
    /\ pubs = <<>>
    /\ running = TRUE
    /\ net = <<>>
    /\ disp = Idle

Subscribe ==
    /\ running /\ ~disp.active
    /\ Len(sub) < MaxSubs
    /\ \E r \in Registrations : mqtt_subscribe(r.type, r.fn, r.user)

Deliver ==
    /\ running
    /\ Len(log) < MaxDispatch
    /\ \E m \in CoreMessages : message(m.topic, m.payload)

Publish ==
    /\ running
    /\ Len(pubs) < MaxPubs
    /\ \E flush \in BOOLEAN, res \in {MOSQ_ERR_SUCCESS, MOSQ_ERR_FAILURE} :
          mqtt_status(flush, res)

MosqResults == {MOSQ_ERR_CONN_PENDING, MOSQ_ERR_SUCCESS, MOSQ_ERR_FAILURE}

ConnackResults == {CONNACK_ACCEPTED, CONNACK_REFUSED}

\* results are drawn for the mosquitto_subscribe calls connected() makes;
\* those of calls it does not make are left at success
Connected ==
    /\ running
    /\ Len(net) < MaxEvents
    /\ \E result \in ConnackResults, rs \in [1..3 -> MosqResults] :
          /\ \A k \in 1..3 :
                k > connected_outcome(result, rs).calls
                => rs[k] = MOSQ_ERR_SUCCESS
          /\ connected(result, rs)

Disconnected ==
    /\ running
    /\ Len(net) < MaxEvents
    /\ \E res \in MosqResults : disconnected(MOSQ_ERR_FAILURE, res)

Poll ==
    /\ running
    /\ Len(net) < MaxEvents
    /\ \E res \in MosqResults : mqtt_poll(res)

\* the registry with callbacks that register callbacks: notify() is followed
\* entry by entry
Enter ==
    /\ running /\ ~disp.active
    /\ Len(log) < MaxDispatch
    /\ \E m \in CoreMessages :
          Entered(m.topic, m.payload,
                  handle(SessionState, m.topic, m.payload, ulong_limbs))

SkipEntry == running /\ notify_skip

CallEntry == running /\ notify_call

CallEntrySubscribing ==
    /\ running
    /\ Len(sub) < MaxSubs
    /\ \E r \in Registrations, moved \in BOOLEAN :
          notify_call_subscribing(r.type, r.fn, r.user, moved)

ReadFreed ==
    running /\ \E outcome \in {"intact", "crash", "end"} : notify_stale(outcome)

Return == running /\ notify_return

NextReentrant ==
    \/ Subscribe \/ Enter \/ SkipEntry \/ CallEntry \/ CallEntrySubscribing
    \/ ReadFreed \/ Return

SpecReentrant == Init /\ [][NextReentrant]_vars

\* the transport: connection callbacks, polls and the messages they bring
NextTransport == Connected \/ Disconnected \/ Poll \/ Deliver

SpecTransport == Init /\ [][NextTransport]_vars

\* the operations done so far
Steps == Len(sub) + Len(log) + Len(pubs) + Len(net) + (now - 1)

\* the whole program, in runs of at most MaxSteps operations
Next ==
    \/ Steps < MaxSteps /\ Subscribe
    \/ Steps < MaxSteps /\ Deliver
    \/ Steps < MaxSteps /\ Publish
    \/ Steps < MaxSteps /\ Tick
    \/ Steps < MaxSteps /\ Connected
    \/ Steps < MaxSteps /\ Disconnected
    \/ Steps < MaxSteps /\ Poll

Spec == Init /\ [][Next]_vars

\* the registry: registrations and dispatching messages
NextRegistry == Subscribe \/ Deliver

SpecRegistry == Init /\ [][NextRegistry]_vars

\* the status publisher and the clock
NextStatus == Publish \/ Tick

SpecStatus == Init /\ [][NextStatus]_vars

\* the decoder: an application with its listeners registered receives
\* messages of every topic
InitDecode ==
    /\ shutdown_pending = FALSE
    /\ hold = FALSE
    /\ curr_algo = -1
    /\ curr_epoch = 0
    /\ curr_block = 0
    /\ sub = AppSubs
    /\ last = 0
    /\ now = 1
    /\ ulong_limbs \in ULongLimbs
    /\ log = <<>>
    /\ pubs = <<>>
    /\ running = TRUE
    /\ net = <<>>
    /\ disp = Idle

ReceiveEpoch ==
    /\ running
    /\ Len(log) < MaxMsgs
    /\ \E m \in EpochMessages : message(m.topic, m.payload)

ReceiveMinedState ==
    /\ running
    /\ Len(log) < MaxMsgs
    /\ \E m \in MinedStateMessages : message(m.topic, m.payload)

ReceiveShutdown ==
    /\ running
    /\ Len(log) < MaxMsgs
    /\ \E m \in ShutdownMessages : message(m.topic, m.payload)

ReceiveOther ==
    /\ running
    /\ Len(log) < MaxMsgs
    /\ \E m \in OtherMessages : message(m.topic, m.payload)

NextDecode == ReceiveEpoch \/ ReceiveMinedState \/ ReceiveShutdown \/ ReceiveOther

SpecDecode == InitDecode /\ [][NextDecode]_vars

-----------------------------------------------------------------------------
(* What the claims say of a payload, read off the payload itself.          *)

DecimalDigits == <<"0", "1", "2", "3", "4", "5", "6", "7", "8", "9">>

IsDecimalDigit(c) == \E v \in 1..Len(DecimalDigits) : DecimalDigits[v] = c

\* a decimal number without leading zeros, of at most nine digits
PlainDecimal(d) ==
    /\ Len(d) \in 1..9
    /\ \A i \in 1..Len(d) : IsDecimalDigit(d[i])
    /\ Len(d) = 1 \/ d[1] # "0"

\* the number a plain decimal denotes
RECURSIVE DecValue(_)
DecValue(d) ==
    IF d = <<>>
    THEN 0
    ELSE DecValue(SubSeq(d, 1, Len(d) - 1)) * 10
         + (CHOOSE v \in 0..9 : DecimalDigits[v + 1] = d[Len(d)])

HasNonZeroDigit(d) == \E i \in 1..Len(d) : d[i] # "0"

Spaces(p) == {i \in 1..Len(p) : p[i] = " "}

NoNul(p) == \A i \in 1..Len(p) : p[i] # NUL

BeginsWith(p, prefix) ==
    Len(p) >= Len(prefix) /\ SubSeq(p, 1, Len(prefix)) = prefix

IsEpoch(m) == m.topic = MQTT_TOPIC_EPOCH

IsMinedState(m) == m.topic = MQTT_TOPIC_MINED_STATE

IsShutdown(m) == m.topic = MQTT_TOPIC_SHUTDOWN

\* an epoch message the decoder did not reject
AcceptedEpoch(m) == IsEpoch(m) /\ m.diag = ""

\* the message changed no session state and reached no callback
Ignored(m) == m.post = m.pre /\ m.notified = <<>> /\ m.calls = <<>>

\* the message was dispatched once, as the given event, to the listeners
NotifiedOnce(m, type) == Len(m.notified) = 1 /\ m.notified[1].type = type

-----------------------------------------------------------------------------
ThreeFields(p, k1, k2) ==
    /\ k1 < k2
    /\ Spaces(p) = {k1, k2}
    /\ PlainDecimal(SubSeq(p, 1, k1 - 1))
    /\ NoNul(SubSeq(p, k1 + 1, k2 - 1))
    /\ dagalgo_code(From(p, k2 + 1)) >= 0

C2_AsStated ==
    \A i \in DOMAIN log :
        (IsEpoch(log[i]) /\ PlainDecimal(log[i].payload))
        => /\ log[i].post.curr_algo = da_ethash
           /\ log[i].post.curr_epoch = DecValue(log[i].payload)

(* C3 as stated: an accepted epoch message delivered a second time in a    *)
(* row dispatches nothing and changes no state, so that the two            *)
(* deliveries give at most one epoch-changed notification.                 *)
C3_AsStated ==
    \A i \in DOMAIN log :
        ( /\ i > 1
          /\ AcceptedEpoch(log[i])
          /\ log[i - 1].topic = log[i].topic
          /\ log[i - 1].payload = log[i].payload )
        => /\ Ignored(log[i])
           /\ Len(log[i - 1].notified) + Len(log[i].notified) <= 1

(* C4 as stated: a mined-state message dispatches a notification if and    *)
(* only if its holding value differs from the hold flag before it.         *)
C4_AsStated ==
    \A i \in DOMAIN log :
        IsMinedState(log[i])
        => ( log[i].notified # <<>>
             <=> BeginsWith(log[i].payload, HOLD_STATE) # log[i].pre.hold )

(* C5: after a mined-state message hold is true exactly when the payload   *)
(* begins with "epoch_upload " (the space included); and a holding payload *)
(* followed by a non-holding one, from hold = false, makes exactly two     *)
(* mined-state notifications.                                              *)
C5_HoldIffPrefix ==
    \A i \in DOMAIN log :
        IsMinedState(log[i])
        => /\ log[i].post.hold = BeginsWith(log[i].payload, HOLD_STATE)
           /\ hold = log[Len(log)].post.hold
           /\ ( /\ i > 1
                /\ IsMinedState(log[i - 1])
                /\ ~log[i - 1].pre.hold
                /\ BeginsWith(log[i - 1].payload, HOLD_STATE)
                /\ ~BeginsWith(log[i].payload, HOLD_STATE) )
              => /\ NotifiedOnce(log[i - 1], mqtt_notify_mined_state)
                 /\ NotifiedOnce(log[i], mqtt_notify_mined_state)
                 /\ log[i - 1].post.hold /\ ~log[i].post.hold

\* hold was toggled on and off again by two messages
C5_Witness ==
    \E i \in DOMAIN log :
        /\ i > 1
        /\ IsMinedState(log[i - 1]) /\ IsMinedState(log[i])
        /\ ~log[i - 1].pre.hold
        /\ BeginsWith(log[i - 1].payload, HOLD_STATE)
        /\ ~BeginsWith(log[i].payload, HOLD_STATE)
        /\ Len(log[i].payload) >= Len(HOLD_STATE) - 1
        /\ ~hold

(* C6 as stated: a shutdown message carrying a number sets shutdown        *)
(* pending to whether the number is non-zero, and dispatches exactly one   *)
(* shutdown notification.                                                  *)
C6_AsStated ==
    \A i \in DOMAIN log :
        ( /\ IsShutdown(log[i])
          /\ log[i].payload # <<>>
          /\ \A j \in 1..Len(log[i].payload) : IsDecimalDigit(log[i].payload[j])
          /\ log[i].payload[1] # "0" )
        => /\ log[i].post.shutdown_pending = HasNonZeroDigit(log[i].payload)
           /\ NotifiedOnce(log[i], mqtt_notify_shutdown)

\* the payload p is a decimal number of k digits followed by a byte that is
\* neither a digit nor a space
TrailingGarbage(p, k) ==
    /\ k < Len(p)
    /\ PlainDecimal(SubSeq(p, 1, k))
    /\ p[1] # "0"
    /\ ~IsDecimalDigit(p[k + 1])
    /\ p[k + 1] # " "

(* C7 as stated: on the epoch and shutdown topics a payload whose number   *)
(* is followed by anything but the end of the payload or a space is        *)
(* dropped: no state changes and no callback runs.                         *)
C7_AsStated ==
    \A i \in DOMAIN log : \A k \in 1..Len(log[i].payload) :
        ( /\ IsEpoch(log[i]) \/ IsShutdown(log[i])
          /\ TrailingGarbage(log[i].payload, k) )
        => Ignored(log[i])

-----------------------------------------------------------------------------
(* The registry.                                                           *)

\* the entries of reg registered for type
Matching(reg, type) == {j \in 1..Len(reg) : reg[j].type = type}

\* the place of entry j among the entries of its type
Rank(reg, j) == Cardinality({k \in Matching(reg, reg[j].type) : k <= j})

(* C8: a dispatch of an event type calls every callback registered for it  *)
(* exactly once, in registration order, each with the context of its       *)
(* registration, and calls no callback of another type; duplicates and     *)
(* several registrations of one type included.                             *)
C8_DispatchInOrder ==
    \A i \in DOMAIN log :
        /\ Len(log[i].notified) <= 1
        /\ log[i].notified = <<>> => log[i].calls = <<>>
        /\ log[i].notified # <<>> =>
              /\ Len(log[i].calls)
                    = Cardinality(Matching(log[i].reg, log[i].notified[1].type))
              /\ \A j \in Matching(log[i].reg, log[i].notified[1].type) :
                    /\ log[i].calls[Rank(log[i].reg, j)].fn = log[i].reg[j].fn
                    /\ log[i].calls[Rank(log[i].reg, j)].user = log[i].reg[j].user

\* a dispatch reached two callbacks of its type, registered with different
\* contexts around a callback of another type
C8_Witness ==
    \E i \in DOMAIN log :
        /\ Len(log[i].reg) = 3
        /\ log[i].reg[2].type # log[i].reg[1].type
        /\ log[i].reg[3].type = log[i].reg[1].type
        /\ log[i].reg[3].user # log[i].reg[1].user
        /\ Len(log[i].calls) = 2
        /\ log[i].calls[1].user = log[i].reg[1].user
        /\ log[i].calls[2].user = log[i].reg[3].user

-----------------------------------------------------------------------------
(* The status publisher.  The clock reads whole seconds after the epoch    *)
(* (now >= 1) and never goes back.                                         *)

\* a call before call j published in the second of call j
PublishedBefore(j) ==
    \E k \in 1..(j - 1) : pubs[k].published /\ pubs[k].t = pubs[j].t

(* C9: a call without force publishes exactly when nothing was published   *)
(* in its second before it: at most one such delivery per second, and the  *)
(* first call of a second without a delivery does deliver.                 *)
C9_RateLimit ==
    \A j \in DOMAIN pubs :
        ~pubs[j].flush => (pubs[j].published <=> ~PublishedBefore(j))

\* two calls without force in one second, in a run without any forced call:
\* the first published and the second did not
C9_Witness ==
    \E j \in DOMAIN pubs :
        /\ j > 1
        /\ \A k \in DOMAIN pubs : ~pubs[k].flush
        /\ pubs[j - 1].t = pubs[j].t
        /\ pubs[j - 1].published
        /\ ~pubs[j].published

(* C10: every call with force publishes, whatever the last-delivered       *)
(* timestamp and however many deliveries its second has seen.              *)
C10_ForcePublishes ==
    \A j \in DOMAIN pubs : pubs[j].flush => pubs[j].published

\* a forced call published in a second that had two deliveries already
C10_Witness ==
    \E j \in DOMAIN pubs :
        /\ j > 2
        /\ pubs[j].flush /\ pubs[j].published
        /\ pubs[j].last = pubs[j].t
        /\ pubs[j - 1].published /\ pubs[j - 1].t = pubs[j].t
        /\ pubs[j - 2].published /\ pubs[j - 2].t = pubs[j].t

-----------------------------------------------------------------------------
\* the topic is none of the three the program subscribes to
UnknownTopic(m) == ~IsEpoch(m) /\ ~IsMinedState(m) /\ ~IsShutdown(m)

\* the payload is a decimal number, a space and more text, and nothing that
\* follows a space in it is a name the lookup knows
UnresolvedName(p) ==
    /\ Spaces(p) # {}
    /\ NoNul(p)
    /\ \E k \in Spaces(p) :
          /\ \A k0 \in Spaces(p) : k <= k0
          /\ PlainDecimal(SubSeq(p, 1, k - 1))
    /\ \A k \in Spaces(p) : dagalgo_code(From(p, k + 1)) < 0

(* C11: a message on a topic the program does not know, and an epoch       *)
(* message whose algorithm name the lookup does not resolve, are dropped:  *)
(* the session state is as before, no callback has run, and the process    *)
(* is still running.                                                       *)
C11_Dropped ==
    \A i \in DOMAIN log :
        (UnknownTopic(log[i])
           \/ (IsEpoch(log[i]) /\ UnresolvedName(log[i].payload)))
        => /\ Ignored(log[i])
           /\ log[i].diag # ""
           /\ running

\* with an epoch listener registered, one message of each of the two kinds
\* has been handled
C11_Witness ==
    /\ Len(log) = 2
    /\ \E i, j \in DOMAIN log :
          /\ i # j
          /\ UnknownTopic(log[i])
          /\ IsEpoch(log[j]) /\ UnresolvedName(log[j].payload)
          /\ notify(log[j].reg, mqtt_notify_epoch) # <<>>

-----------------------------------------------------------------------------
\* the records of log follow one another with no change in between, from
\* the initial state to the present one
Continuous ==
    \A i \in DOMAIN log :
        /\ log[i].pre = (IF i = 1
                         THEN [SessionState EXCEPT
                                   !.shutdown_pending = FALSE, !.hold = FALSE,
                                   !.curr_algo = -1, !.curr_epoch = 0]
                         ELSE log[i - 1].post)
        /\ i = Len(log) => log[i].post = SessionState

(* C12: once an epoch message has been decoded successfully, current       *)
(* algorithm is never again the "not yet known" value -1; and current      *)
(* algorithm changes only in the handling of an accepted epoch message     *)
(* that is a change, one whose (algorithm, epoch) is not the current pair. *)
C12_AlgoKnown ==
    /\ Continuous
    /\ \A i \in DOMAIN log :
          /\ (\E j \in 1..i : AcceptedEpoch(log[j]))
                => log[i].post.curr_algo # -1
          /\ log[i].post.curr_algo # log[i].pre.curr_algo
                => /\ AcceptedEpoch(log[i])
                   /\ NotifiedOnce(log[i], mqtt_notify_epoch)
                   /\ log[i].notified[1].seen = log[i].post

\* an accepted epoch message changed the algorithm from one known value to
\* another
C12_Witness ==
    \E i \in DOMAIN log :
        /\ AcceptedEpoch(log[i])
        /\ log[i].pre.curr_algo # -1
        /\ log[i].post.curr_algo # log[i].pre.curr_algo

-----------------------------------------------------------------------------
\* the j-th mqtt_status call reached mosquitto_publish and it failed
FailedPublish(j) ==
    pubs[j].published /\ pubs[j].res # MOSQ_ERR_SUCCESS

(* C13: a status publish the transport reports as failed is only logged:   *)
(* the process is still running, the call made its one publish attempt     *)
(* and no more, the call after it makes at most its own one attempt, and   *)
(* the session state and the registration list are what they were.         *)
C13_FailureOnlyLogged ==
    \A j \in DOMAIN pubs :
        FailedPublish(j)
        => /\ running
           /\ pubs[j].sent = 1 /\ pubs[j].logged
           /\ j < Len(pubs) => pubs[j + 1].sent <= 1
           /\ SessionState = [shutdown_pending |-> FALSE, hold |-> FALSE,
                              curr_algo |-> -1, curr_epoch |-> 0,
                              curr_block |-> 0]
           /\ sub = <<>>

\* a publish failed and a later call published with success
C13_Witness ==
    \E j \in DOMAIN pubs :
        /\ FailedPublish(j)
        /\ j < Len(pubs)
        /\ pubs[j + 1].published
        /\ pubs[j + 1].res = MOSQ_ERR_SUCCESS

-----------------------------------------------------------------------------
\* what C14 says of an accepted epoch message m that carries algorithm algo
\* and epoch number n
EpochAsStated(m, algo, n) ==
    /\ m.notified # <<>>
          <=> (algo # m.pre.curr_algo \/ n # m.pre.curr_epoch)
    /\ m.notified # <<>> => m.calls # <<>>
    /\ \A c \in DOMAIN m.calls :
          /\ m.calls[c].seen.curr_algo = algo
          /\ m.calls[c].seen.curr_epoch = n

(* C14 as stated: an accepted epoch message is a change exactly when its   *)
(* algorithm differs from current algorithm or its epoch number differs    *)
(* from current epoch; and every epoch-changed callback then sees current  *)
(* algorithm and current epoch equal to the message's algorithm and epoch  *)
(* number.                                                                 *)
C14_AsStated ==
    \A i \in DOMAIN log :
        /\ (AcceptedEpoch(log[i]) /\ PlainDecimal(log[i].payload))
              => EpochAsStated(log[i], da_ethash, DecValue(log[i].payload))
        /\ \A k1, k2 \in 1..Len(log[i].payload) :
              (AcceptedEpoch(log[i]) /\ ThreeFields(log[i].payload, k1, k2))
              => EpochAsStated(log[i],
                               dagalgo_code(From(log[i].payload, k2 + 1)),
                               DecValue(SubSeq(log[i].payload, 1, k1 - 1)))

-----------------------------------------------------------------------------
\* a payload of one byte or more, none of them a decimal digit
NoDigits(p) ==
    p # <<>> /\ \A k \in 1..Len(p) : ~IsDecimalDigit(p[k])

(* C15 as stated: on the epoch and shutdown topics a payload that is not   *)
(* empty and has no digit in it, one that starts with a space included,    *)
(* is a decode failure: no state changes and nothing is dispatched.        *)
C15_AsStated ==
    \A i \in DOMAIN log :
        ((IsEpoch(log[i]) \/ IsShutdown(log[i])) /\ NoDigits(log[i].payload))
        => Ignored(log[i]) /\ log[i].diag # ""

-----------------------------------------------------------------------------
\* the transport reported a failure to the handler of event e
ReportedFailure(e) ==
    \/ e.result # MOSQ_ERR_SUCCESS
    \/ \E k \in 1..e.calls : e.res[k] # MOSQ_ERR_SUCCESS

(* C16 as stated: a disconnect notification makes exactly one reconnect    *)
(* attempt, and if the attempt fails to initiate the process terminates.   *)
C16_AsStated ==
    \A i \in DOMAIN net :
        net[i].op = "disconnected"
        => /\ net[i].calls = 1
           /\ net[i].res[1] # MOSQ_ERR_SUCCESS
                 => net[i].exits /\ ~running

(* C17 as stated: every failure the transport reports to the               *)
(* connect-result callback, for one of the three topic subscriptions or    *)
(* for a poll ends the process, and no message is handled after it.        *)
C17_AsStated ==
    \A i \in DOMAIN net :
        (net[i].op \in {"connected", "mqtt_poll"} /\ ReportedFailure(net[i]))
        => /\ net[i].exits /\ ~running
           /\ Len(log) = net[i].msgs

-----------------------------------------------------------------------------
\* what a step that handles message m may not touch
MessageFrame(m) ==
    /\ UNCHANGED <<sub, curr_block>>
    /\ IsEpoch(m) => UNCHANGED <<hold, shutdown_pending>>
    /\ IsMinedState(m) => UNCHANGED <<curr_algo, curr_epoch, shutdown_pending>>
    /\ IsShutdown(m) => UNCHANGED <<curr_algo, curr_epoch, hold>>
    /\ UnknownTopic(m) => UNCHANGED <<curr_algo, curr_epoch, hold,
                                      shutdown_pending>>

(* C18: an epoch message leaves hold and shutdown-pending alone, a         *)
(* mined-state message leaves algorithm, epoch and shutdown-pending alone, *)
(* a shutdown message leaves algorithm, epoch and hold alone; no message   *)
(* changes curr_block or the registration list; and a status publish       *)
(* changes none of the session state.                                      *)
C18_Frame ==
    [][ /\ log' # log => MessageFrame(log'[Len(log')])
        /\ pubs' # pubs => UNCHANGED <<shutdown_pending, hold, curr_algo,
                                       curr_epoch, curr_block>>
      ]_vars

\* with a callback registered, a shutdown message has set shutdown-pending
\* and a status publish has been made
C18_Witness ==
    /\ sub # <<>>
    /\ pubs # <<>>
    /\ \E i \in DOMAIN log :
          /\ IsShutdown(log[i])
          /\ log[i].post.shutdown_pending # log[i].pre.shutdown_pending

-----------------------------------------------------------------------------
\* the value of last once the j-th mqtt_status call has returned
LastAfter(j) == IF j < Len(pubs) THEN pubs[j + 1].last ELSE last

\* no call before the j-th has delivered a status in the second of the j-th
NoneDeliveredBefore(j) ==
    \A k \in 1..(j - 1) :
        pubs[k].t = pubs[j].t
        => ~(pubs[k].published /\ pubs[k].res = MOSQ_ERR_SUCCESS)

(* C20 as stated: the last-delivered timestamp changes only when a         *)
(* delivery succeeded, so that after a failed status publish a following   *)
(* non-forced publish in the same second is still attempted.               *)
C20_AsStated ==
    \A j \in DOMAIN pubs :
        /\ LastAfter(j) # pubs[j].last
              => pubs[j].published /\ pubs[j].res = MOSQ_ERR_SUCCESS
        /\ ( /\ FailedPublish(j)
             /\ NoneDeliveredBefore(j)
             /\ j < Len(pubs)
             /\ pubs[j + 1].t = pubs[j].t
             /\ ~pubs[j + 1].flush )
           => pubs[j + 1].published

-----------------------------------------------------------------------------
\* the first n elements of the sequence q
Prefix(q, n) == SubSeq(q, 1, n)

\* the callbacks message m ran begin with those registered, for the event
\* dispatched, when its dispatch began, each once and in their order
RanRegistered(m) ==
    /\ Len(m.calls) >= Len(notify(m.reg, m.notified[1].type))
    /\ Prefix(m.calls, Len(notify(m.reg, m.notified[1].type)))
          = CallsFor(notify(m.reg, m.notified[1].type), m.notified[1])

(* C19 as stated: when a callback registers a callback while a dispatch    *)
(* is in progress, the dispatch still calls every registration that was    *)
(* there when it began, once and in order, and reads only valid entries    *)
(* of the registry.                                                        *)
C19_AsStated ==
    /\ ~disp.invalid
    /\ running
    /\ \A i \in DOMAIN log :
          log[i].notified # <<>> => RanRegistered(log[i])

====
